---- MODULE Spec2Model ----
(***************************************************************************)
(* killswitch_std: KillSwitch and KillSwitchWatcher, two kinds of handle   *)
(* on one shared Arc<AtomicBool>.                                          *)
(*                                                                         *)
(* Every method of the library performs exactly one access to the shared   *)
(* cell: is_alive() one atomic load, kill() one atomic store, both with    *)
(* Relaxed ordering.  For a single atomic location the memory model gives  *)
(* one modification order with which all loads and stores of all threads   *)
(* are coherent and which extends program order and happens-before.  A     *)
(* call therefore takes effect at one point between its invocation and its *)
(* return, and a call that starts after another has returned takes effect  *)
(* after it.  The model has one action per method; the order of the steps  *)
(* of a behaviour is the order in which the calls take effect, and calls   *)
(* running concurrently on several threads appear in either order.         *)
(***************************************************************************)
EXTENDS Naturals, FiniteSets, Sequences, TLC

\* ------------------------------------------------------------------ bounds
MaxFlags   == 2
MaxHandles == 3

HandleIds == 1..MaxHandles

VARIABLES
    flag,        \* the live AtomicBool cells: flag id -> BOOLEAN
    strong,      \* the Arc strong count of each live cell
    nextFlag,    \* number of cells allocated so far
    handles,     \* the live handles: handle id -> [kind, flag, of, late, rf]
    nextHandle,  \* number of handles made so far
    out,         \* the call that completed last, with what it returned
    nkill,       \* history of each live cell: kill() calls, "none", "one", "many"
    sawFalse     \* history: some is_alive() on the cell has returned false

vars == <<flag, strong, nextFlag, handles, nextHandle, out, nkill, sawFalse>>

\* Counting up to two: "none", "one", "many".
Count(c) == IF c = "none" THEN "one" ELSE "many"

\* ------------------------------------------------------------ the program

\* No call has completed yet.
NoCall == [op |-> "none", h |-> 0, f |-> 0, kind |-> "none", res |-> "none",
           aF |-> FALSE, aFH |-> FALSE, aK |-> FALSE, aKof |-> FALSE,
           nk |-> "none", seen |-> FALSE, late |-> FALSE, sw |-> FALSE]

\* A cell that is made already killed.
InitialValue_killed == FALSE

\* AtomicBool::new(true) in Default::default.
InitialValue == TRUE

\* A Watcher that reads the negation of the cell.
Watcher_is_alive_inverted(h) == ~flag[handles[h].flag]

\* A Watcher that never sees a store: it answers true whatever the cell holds.
Watcher_is_alive_stale(h) == TRUE

\* KillSwitchWatcher::is_alive: self.switch.load(Relaxed).
Watcher_is_alive(h) == flag[handles[h].flag]

\* KillSwitch::is_alive: self.switch.load(Relaxed).
Switch_is_alive(h) == flag[handles[h].flag]

\* A kill() that toggles the cell.
kill_toggle(h) == ~flag[handles[h].flag]

\* A kill() that stores true.
kill_true(h) == TRUE

\* A kill() that stores back what the cell holds.
kill_keep(h) == flag[handles[h].flag]

\* KillSwitch::kill stores false, whatever the cell holds.
kill_value(h) == FALSE

\* A kill() that checks the cell the wrong way round: it fails on a live cell.
kill_result_inverted(h) == IF flag[handles[h].flag] THEN "AlreadyKilled" ELSE "Ok"

\* KillSwitch::kill returns (): it has no error path, every call succeeds.
kill_result(h) == "Ok"

\* A derived handle bound to the first live cell, not to the cell of h.
arc_clone_first(h) == CHOOSE f \in DOMAIN flag : \A g \in DOMAIN flag : f <= g

\* A derived handle bound to the newest live cell, not to the cell of h.
arc_clone_last(h) == CHOOSE f \in DOMAIN flag : \A g \in DOMAIN flag : g <= f

\* self.switch.clone(): the Arc of a derived handle points to the cell of h.
arc_clone(h) == handles[h].flag

Init ==
    /\ flag = <<>>
    /\ strong = <<>>
    /\ nextFlag = 0
    /\ handles = <<>>
    /\ nextHandle = 0
    /\ out = NoCall
    /\ nkill = <<>>
    /\ sawFalse = <<>>

\* A handle of the given kind on cell f, derived from a handle on cell src.
\* History kept with the handle: src (of), whether a kill() on src had completed
\* when the handle was made (late), and whether an is_alive() on the handle has
\* returned false (rf).
NewHandle(kind, f, src) ==
    /\ nextHandle < MaxHandles
    /\ nextHandle' = nextHandle + 1
    /\ handles' = handles @@ ((nextHandle + 1) :>
                     [kind |-> kind, flag |-> f, of |-> src,
                      late |-> nkill[src] # "none", rf |-> FALSE])

\* A default() that hands out a cell that is live already, when there is one.
Arc_new_shared == IF DOMAIN flag = {} THEN nextFlag + 1 ELSE CHOOSE f \in DOMAIN flag : TRUE

\* Arc::new in Default::default: a cell of its own for each call.
Arc_new == nextFlag + 1

\* KillSwitch::default(): a fresh cell holding true, and the one Switch on it.
Default ==
    /\ nextFlag < MaxFlags
    /\ nextFlag' = nextFlag + 1
    /\ flag' = flag @@ (Arc_new :> InitialValue)
    /\ strong' = strong @@ (Arc_new :> 1)
    /\ nkill' = nkill @@ (Arc_new :> "none")
    /\ sawFalse' = sawFalse @@ (Arc_new :> FALSE)
    /\ nextHandle < MaxHandles
    /\ nextHandle' = nextHandle + 1
    /\ handles' = handles @@ ((nextHandle + 1) :>
                     [kind |-> "switch", flag |-> Arc_new, of |-> nextFlag + 1,
                      late |-> FALSE, rf |-> FALSE])
    /\ UNCHANGED out

\* #[derive(Clone)] on KillSwitch and on KillSwitchWatcher: same kind, cloned Arc.
Clone(h) ==
    /\ h \in DOMAIN handles
    /\ NewHandle(handles[h].kind, arc_clone(h), handles[h].flag)
    /\ strong' = [strong EXCEPT ![arc_clone(h)] = @ + 1]
    /\ UNCHANGED <<flag, nextFlag, out, nkill, sawFalse>>

\* KillSwitch::watcher(): a Watcher on the cloned Arc.
watcher(h) ==
    /\ h \in DOMAIN handles
    /\ handles[h].kind = "switch"
    /\ NewHandle("watcher", arc_clone(h), handles[h].flag)
    /\ strong' = [strong EXCEPT ![arc_clone(h)] = @ + 1]
    /\ UNCHANGED <<flag, nextFlag, out, nkill, sawFalse>>

\* The function f without the key k.
Without(f, k) == [x \in DOMAIN f \ {k} |-> f[x]]

\* A cell owned by its Switch: freed when a Switch on it is dropped.
drops_cell_with_switch(h) == handles[h].kind = "switch"

\* Drop for Arc: the cell is freed when its last reference is dropped, which is
\* when the strong count goes from one to zero.
drops_cell(h) == strong[handles[h].flag] = 1

\* Dropping a handle drops its Arc: the count goes down, and the cell is freed
\* when it reaches zero.
Drop(h) ==
    /\ h \in DOMAIN handles
    /\ handles' = Without(handles, h)
    /\ LET f == handles[h].flag IN
         IF drops_cell(h)
         THEN /\ flag' = Without(flag, f)
              /\ strong' = Without(strong, f)
              /\ nkill' = Without(nkill, f)
              /\ sawFalse' = Without(sawFalse, f)
         ELSE /\ strong' = [strong EXCEPT ![f] = @ - 1]
              /\ UNCHANGED <<flag, nkill, sawFalse>>
    /\ UNCHANGED <<nextFlag, nextHandle, out>>

\* What is_alive() returns on a live handle: the method of the handle's type.
Reads(h) == IF handles[h].kind = "watcher" THEN Watcher_is_alive(h) ELSE Switch_is_alive(h)

\* Some Switch on cell f is live.
HasSwitch(f) == \E s \in DOMAIN handles : handles[s].kind = "switch" /\ handles[s].flag = f

\* A Display that has its two arms the wrong way round.
Watcher_fmt_swapped(h) == IF Watcher_is_alive(h) THEN "killed" ELSE "alive"

\* Display for KillSwitchWatcher: match self.is_alive() { true => "alive", false => "killed" }.
Watcher_fmt(h) == IF Watcher_is_alive(h) THEN "alive" ELSE "killed"

\* Display for KillSwitch: the same match on its own is_alive().
Switch_fmt(h) == IF Switch_is_alive(h) THEN "alive" ELSE "killed"

\* to_string() on a handle of either kind: the string its Display writes.  The
\* cell is loaded once, inside fmt; what it held is recorded with the result.
to_string(h) ==
    /\ h \in DOMAIN handles
    /\ LET f == handles[h].flag IN
         out' = [op |-> "to_string", h |-> h, f |-> f, kind |-> handles[h].kind,
                 res |-> IF handles[h].kind = "watcher" THEN Watcher_fmt(h)
                                                       ELSE Switch_fmt(h),
                 aF |-> FALSE, aFH |-> FALSE, aK |-> nkill[f] # "none",
                 aKof |-> FALSE, nk |-> "none", seen |-> flag[f], late |-> FALSE,
                 sw |-> HasSwitch(f)]
    /\ UNCHANGED <<flag, strong, nextFlag, handles, nextHandle, nkill, sawFalse>>

\* is_alive() on a handle of either kind.
is_alive(h) ==
    /\ h \in DOMAIN handles
    /\ LET f == handles[h].flag
           r == Reads(h) IN
         /\ out' = [op |-> "is_alive", h |-> h, f |-> f, kind |-> handles[h].kind,
                    res |-> r,
                    aF |-> sawFalse[f], aFH |-> handles[h].rf,
                    aK |-> nkill[f] # "none",
                    aKof |-> (handles[h].of \in DOMAIN nkill
                              /\ nkill[handles[h].of] # "none"),
                    nk |-> "none", seen |-> FALSE, late |-> handles[h].late,
                    sw |-> HasSwitch(f)]
         /\ sawFalse' = [sawFalse EXCEPT ![f] = @ \/ (r = FALSE)]
         /\ handles' = [handles EXCEPT ![h].rf = @ \/ (r = FALSE)]
    /\ UNCHANGED <<flag, strong, nextFlag, nextHandle, nkill>>

\* A Watcher that has a kill() method too.
has_kill_any(h) == TRUE

\* kill() is a method of impl KillSwitch alone: KillSwitchWatcher has none.
has_kill(h) == handles[h].kind = "switch"

\* A kill() that spins until it finds the cell alive and flips it itself: it
\* waits for ever on a cell that another call has killed.
kill_spin(h) ==
    /\ h \in DOMAIN handles
    /\ has_kill(h)
    /\ flag[handles[h].flag] = TRUE
    /\ LET f == handles[h].flag IN
         /\ flag' = [flag EXCEPT ![f] = FALSE]
         /\ out' = [op |-> "kill", h |-> h, f |-> f, kind |-> handles[h].kind,
                    res |-> "Ok", aF |-> FALSE, aFH |-> FALSE,
                    aK |-> nkill[f] # "none", aKof |-> FALSE,
                    nk |-> nkill[f], seen |-> flag[f], late |-> FALSE,
                    sw |-> HasSwitch(f)]
         /\ nkill' = [nkill EXCEPT ![f] = Count(@)]
    /\ UNCHANGED <<strong, nextFlag, handles, nextHandle, sawFalse>>

\* kill() on a Switch.
kill(h) ==
    /\ h \in DOMAIN handles
    /\ has_kill(h)
    /\ LET f == handles[h].flag IN
         /\ flag' = [flag EXCEPT ![f] = kill_value(h)]
         /\ out' = [op |-> "kill", h |-> h, f |-> f, kind |-> handles[h].kind,
                    res |-> kill_result(h), aF |-> FALSE, aFH |-> FALSE,
                    aK |-> nkill[f] # "none", aKof |-> FALSE,
                    nk |-> nkill[f], seen |-> flag[f], late |-> FALSE,
                    sw |-> HasSwitch(f)]
         /\ nkill' = [nkill EXCEPT ![f] = Count(@)]
    /\ UNCHANGED <<strong, nextFlag, handles, nextHandle, sawFalse>>

Next ==
    \/ Default
    \/ \E h \in HandleIds : Clone(h)
    \/ \E h \in HandleIds : watcher(h)
    \/ \E h \in HandleIds : Drop(h)
    \/ \E h \in HandleIds : is_alive(h)
    \/ \E h \in HandleIds : kill(h)
    \/ \E h \in HandleIds : to_string(h)

Spec == Init /\ [][Next]_vars

\* The polling scenario of the crate's test: Switches are made, Watchers are
\* derived from them and handed to readers, which keep them and poll is_alive()
\* in a loop; kill() is called at some point.
PollNext ==
    \/ Default
    \/ \E h \in HandleIds : watcher(h)
    \/ \E h \in HandleIds : is_alive(h)
    \/ \E h \in HandleIds : kill(h)

\* The scheduler is fair to every reader: another poll of its handle always comes.
FairSpec == Init /\ [][PollNext]_vars /\ \A h \in HandleIds : WF_vars(is_alive(h))

\* ----------------------------------------------------------------- claims

\* C1 (monotonicity): an is_alive() call made after some is_alive() call on the
\* same cell has returned false returns false, on whatever handle; and no step
\* takes a cell from killed back to alive.
C1_Monotonic ==
    /\ [](out.op = "is_alive" /\ out.aF => out.res = FALSE)
    /\ [][\A f \in DOMAIN flag \cap DOMAIN flag' :
             flag[f] = FALSE => flag'[f] = FALSE]_vars

\* C1 witness: an is_alive() call after an earlier one had returned false.
C1_Witness == out.op = "is_alive" /\ out.aF /\ out.res = FALSE

\* C2 (propagation): an is_alive() call made after a kill() on the same cell has
\* returned returns false, on a Switch, a clone or a Watcher alike.
C2_Propagation == out.op = "is_alive" /\ out.aK => out.res = FALSE

\* C2 witness: a Watcher derived before the kill is read after it.
C2_Witness ==
    /\ out.op = "is_alive" /\ out.kind = "watcher"
    /\ out.aK /\ ~out.late /\ out.res = FALSE

\* C3 (single success under sequential calls), as claimed: of two kill() calls in
\* sequence on the same Switch, the first on its cell and the second with no other
\* kill() on that cell, the first returns success and the second AlreadyKilled.
C3_SecondKillFails ==
    [][(/\ out.op = "kill" /\ out.nk = "none"
        /\ out'.op = "kill" /\ out'.nk = "one" /\ out'.h = out.h)
       => (out.res = "Ok" /\ out'.res = "AlreadyKilled")]_vars

\* C4 (exactly-once flip under concurrency), as claimed: of two kill() calls
\* made through two handles on the same cell, which take effect one after the
\* other in either order, not both return success.
C4_ExactlyOneWinner ==
    [][(/\ out.op = "kill" /\ out'.op = "kill"
        /\ out'.f = out.f /\ out'.h # out.h)
       => ~(out.res = "Ok" /\ out'.res = "Ok")]_vars

\* C5 (initial state): while no kill() has been called on a cell, is_alive() on
\* the Switch made by default() and on every clone and Watcher derived from it
\* returns true.
C5_InitiallyAlive ==
    \A h \in DOMAIN handles : nkill[handles[h].of] = "none" => Reads(h) = TRUE

\* C5 witness: a fresh Switch with a Watcher derived from it, before any kill().
C5_Witness ==
    \E h, w \in DOMAIN handles :
        /\ handles[h].kind = "switch" /\ handles[w].kind = "watcher"
        /\ handles[h].flag = handles[w].flag
        /\ nkill[handles[h].flag] = "none"

\* C6 (minimum contract of kill): once a kill() call on a cell has returned, the
\* cell is killed in every later state, whatever other kill() calls ran.
C6_KilledForever == \A f \in DOMAIN flag : nkill[f] # "none" => flag[f] = FALSE

\* C6 witness: a cell after several kill() calls.
C6_Witness == \E f \in DOMAIN flag : nkill[f] = "many" /\ flag[f] = FALSE

\* C7 (AlreadyKilled is never spurious): a kill() call that returns AlreadyKilled
\* found the cell killed, and the first kill() call on a cell returns success.
C7_NeverSpurious ==
    out.op = "kill" =>
        /\ out.res = "AlreadyKilled" => out.seen = FALSE
        /\ out.nk = "none" => out.res = "Ok"

\* C7 witness: the first kill() on a cell has returned success.
C7_Witness == out.op = "kill" /\ out.nk = "none" /\ out.seen = TRUE /\ out.res = "Ok"

\* C8 (no spurious kill): while no kill() has been called on a cell, every
\* is_alive() call on it returns true, whatever handles were made and dropped.
C8_NoSpuriousKill == out.op = "is_alive" /\ ~out.aK => out.res = TRUE

\* C8 witness: a Watcher read true before any kill(), after a handle was dropped.
C8_Witness ==
    /\ out.op = "is_alive" /\ out.kind = "watcher"
    /\ ~out.aK /\ out.res = TRUE
    /\ Cardinality(DOMAIN handles) < nextHandle

\* C9 (derivation independence): is_alive() on a Watcher returns false once a
\* kill() on the cell of the Switch it was derived from has returned, whether the
\* Watcher was derived before that kill() or after it.
C9_DerivationIndependent ==
    out.op = "is_alive" /\ out.kind = "watcher" /\ out.aKof => out.res = FALSE

\* C9 witness: a Watcher derived after the kill is read.
C9_Witness ==
    out.op = "is_alive" /\ out.kind = "watcher" /\ out.late /\ out.res = FALSE

\* C10 (eventual observation): under fair scheduling of the readers, after a
\* kill() every Watcher that is kept gets false from a poll, and a Watcher that
\* has gotten false never gets true again.
C10_EventuallyFalse ==
    /\ \A h \in HandleIds :
         [](h \in DOMAIN handles /\ handles[h].kind = "watcher"
               /\ nkill[handles[h].flag] # "none"
            => <>(out.op = "is_alive" /\ out.h = h /\ out.res = FALSE))
    /\ [](out.op = "is_alive" /\ out.kind = "watcher" /\ out.aFH => out.res = FALSE)

\* C10 witness: a Watcher derived before the kill has gotten false from a poll, and
\* gets false again from a later poll.
C10_Witness ==
    /\ out.op = "is_alive" /\ out.kind = "watcher"
    /\ ~out.late /\ out.aFH /\ out.res = FALSE

\* C11 (Display agrees with the flag): to_string() on a handle of either kind
\* returns "alive" when the cell holds true at the rendering, which is when
\* is_alive() on the handle is true, and "killed" otherwise; it returns no other
\* string.
C11_DisplayAgrees ==
    out.op = "to_string" =>
        /\ out.res \in {"alive", "killed"}
        /\ out.res = "alive" <=> out.seen = TRUE
        /\ out.res = "killed" <=> out.aK

\* C11 witness: a Watcher rendered after the kill() gives "killed".
C11_Witness ==
    out.op = "to_string" /\ out.kind = "watcher" /\ out.aK /\ out.res = "killed"

\* C12 (derivation shares and does not mutate): a step that derives a handle,
\* by clone() on a Switch or a Watcher or by watcher() on a Switch, binds the new
\* handle to the cell of its source, counts one more reference to that cell,
\* changes the value of no cell and leaves every handle there was as it was; and
\* after a kill() through one Switch, every handle derived on that cell reads
\* false.
C12_DerivationShares ==
    /\ [][(nextHandle' = nextHandle + 1 /\ nextFlag' = nextFlag) =>
            LET n == nextHandle' IN
              /\ handles'[n].flag = handles'[n].of
              /\ \E s \in DOMAIN handles : handles[s].flag = handles'[n].flag
              /\ strong'[handles'[n].of] = strong[handles'[n].of] + 1
              /\ flag' = flag
              /\ \A g \in DOMAIN handles :
                    g \in DOMAIN handles' /\ handles'[g] = handles[g]]_vars
    /\ [](out.op = "kill" =>
            \A g \in DOMAIN handles : handles[g].of = out.f => Reads(g) = FALSE)

\* C12 witness: a kill() through a clone of a Switch, with the Switch it was
\* cloned from and a Watcher on the same cell both reading false.
C12_Witness ==
    /\ out.op = "kill"
    /\ \E s, w \in DOMAIN handles :
          /\ s < out.h /\ handles[s].kind = "switch" /\ handles[w].kind = "watcher"
          /\ handles[s].flag = out.f /\ handles[w].flag = out.f
          /\ out.h \in DOMAIN handles /\ handles[out.h].of = out.f
          /\ Reads(s) = FALSE /\ Reads(w) = FALSE

\* C13 (capability restriction): the value of a cell changes only in a kill()
\* step through a Switch on that cell; a new Switch comes from default() or from
\* a Switch on the same cell, never from a Watcher; so a cell left with no Switch
\* never gets one again and keeps its value: if it is alive, its Watchers read
\* true for ever.
C13_CapabilityRestriction ==
    [][/\ \A f \in DOMAIN flag \cap DOMAIN flag' :
            flag'[f] # flag[f] =>
               \E h \in DOMAIN handles :
                   /\ handles[h].kind = "switch" /\ handles[h].flag = f
                   /\ out'.op = "kill" /\ out'.h = h
       /\ \A n \in DOMAIN handles' \ DOMAIN handles :
            handles'[n].kind = "switch" =>
               \/ handles'[n].flag \notin DOMAIN flag
               \/ HasSwitch(handles'[n].flag)
       /\ \A f \in DOMAIN flag \cap DOMAIN flag' :
            ~HasSwitch(f) =>
               /\ flag'[f] = flag[f]
               /\ \A w \in DOMAIN handles' :
                    handles'[w].flag = f => handles'[w].kind = "watcher"]_vars

\* C13 witness: on a cell whose Switches have all been dropped before any kill(),
\* a Watcher has been cloned and one of the Watchers reads true.
C13_Witness ==
    /\ out.op = "is_alive" /\ out.kind = "watcher" /\ ~out.sw /\ out.res = TRUE
    /\ out.f \in DOMAIN flag /\ ~HasSwitch(out.f)
    /\ \E w \in DOMAIN handles : w # out.h /\ handles[w].flag = out.f

\* C14 (shared lifetime): the live cells are exactly the cells some live handle
\* refers to, with one counted reference for each handle of either kind, so no
\* live handle refers to a destroyed cell; and is_alive() on a Watcher whose
\* cell has no Switch left returns false if a kill() was made on the cell and
\* true if none was.
C14_SharedLifetime ==
    /\ DOMAIN flag = {handles[h].flag : h \in DOMAIN handles}
    /\ DOMAIN strong = DOMAIN flag
    /\ \A f \in DOMAIN flag :
          strong[f] = Cardinality({h \in DOMAIN handles : handles[h].flag = f})
    /\ (out.op = "is_alive" /\ out.kind = "watcher" /\ ~out.sw)
          => (out.res = (~out.aK))

\* C14 witness: a Watcher reads false on a killed cell whose Switches have all
\* been dropped, and the Watcher keeps the cell alive.
C14_Witness ==
    /\ out.op = "is_alive" /\ out.kind = "watcher" /\ ~out.sw
    /\ out.aK /\ out.res = FALSE
    /\ out.h \in DOMAIN handles /\ out.f \in DOMAIN flag
    /\ strong[out.f] = 1

\* C15 (non-blocking): in every state, whatever calls the other threads have
\* made or not made, each method of each live handle can take its step and
\* return: is_alive() and to_string() on any handle, kill() on a Switch, and,
\* while the model has room for one more handle, clone() on any handle and
\* watcher() on a Switch.  No call waits for a state that another call must
\* bring about.
C15_NonBlocking ==
    \A h \in DOMAIN handles :
        /\ ENABLED is_alive(h)
        /\ ENABLED to_string(h)
        /\ handles[h].kind = "switch" => ENABLED kill(h)
        /\ nextHandle < MaxHandles =>
              /\ ENABLED Clone(h)
              /\ handles[h].kind = "switch" => ENABLED watcher(h)

\* C15 witness: a kill() has returned on a cell that a call through another
\* handle had already killed.
C15_Witness ==
    /\ out.op = "kill" /\ out.seen = FALSE /\ out.res = "Ok"
    /\ \E g \in DOMAIN handles :
          /\ g # out.h /\ handles[g].kind = "switch" /\ handles[g].flag = out.f
          /\ out.h \in DOMAIN handles /\ out.nk = "one"
          /\ ENABLED kill(g)

\* C16 (independence of separately created cells): handles that come from two
\* default() calls are on two cells, and a kill() step through a handle leaves
\* what is_alive() returns on every handle that comes from another default()
\* call as it was.
C16_Independent ==
    /\ [](\A h, g \in DOMAIN handles :
            handles[h].of # handles[g].of => handles[h].flag # handles[g].flag)
    /\ [][\A h \in DOMAIN handles :
            kill(h) =>
               \A g \in DOMAIN handles :
                   handles[g].of # handles[h].of =>
                      g \in DOMAIN handles' /\ Reads(g)' = Reads(g)]_vars

\* C16 witness: is_alive() returns true on a handle of one cell after a kill()
\* on the cell of another default() call.
C16_Witness ==
    /\ out.op = "is_alive" /\ out.res = TRUE
    /\ \E k \in DOMAIN handles :
          /\ handles[k].of # out.f /\ handles[k].flag # out.f
          /\ nkill[handles[k].flag] # "none" /\ Reads(k) = FALSE

====
